---- MODULE Spec2Model ----
(***************************************************************************)
(* A model of fs.wrapfs.WrapFS, the filesystem proxy of pyfilesystem2.     *)
(*                                                                         *)
(* A proxy holds a reference (_wrap_fs) to another filesystem object and   *)
(* re-issues every operation on the filesystem delegate_path selects.      *)
(* The filesystems at the bottom of a chain are test doubles: they keep a  *)
(* small tree of files and answer the calls they receive; every call a     *)
(* proxy (or the external move_file / copy_file routine) issues is logged. *)
(***************************************************************************)
EXTENDS Integers, Sequences, FiniteSets, TLC

VARIABLES
    proxies,    \* the WrapFS objects constructed so far, in construction order
    files,      \* files[b][p]: contents of file p on base filesystem b
    last        \* the call that produced this state, and everything it did

vars == <<proxies, files, last>>

----------------------------------------------------------------------------
(* Bounds and input sets *)

MaxProxies == 2     \* proxies alive in the filesystem specification
MaxWraps == 3       \* proxies alive in the representation specification

FileNames == {"a"}                  \* the names files are created under

\* Paths are sequences of components; ".." is a back reference.
CallerPaths ==
    { <<>>, <<"a">>, <<"b">>, <<"b", "a">>, <<"a", "..">>, <<"..">> }

Data == {"x", "y"}                  \* file contents
Labels == {"None", "sub", "cache"}  \* wrap_name values; "None" is Python's None
Modes == {"r", "rb"}
Bufferings == {-1, 0}
Faults == {"none", "io"}            \* outcome of a streamed transfer

----------------------------------------------------------------------------
(* Filesystem objects *)

Base(i) == [kind |-> "base", id |-> i]
Proxy(i) == [kind |-> "proxy", id |-> i]
MoveFile == [kind |-> "move_file", id |-> 0]
CopyFile == [kind |-> "copy_file", id |-> 0]

BaseFS == {Base(1), Base(2)}
ProxyFS == {Proxy(i) : i \in 1..Len(proxies)}

\* hasattr(_fs, '_wrap_fs')
hasWrapFs(f) == f.kind = "proxy"

Self(f) == proxies[f.id]

\* The directory tree of each base filesystem; directories are never moved.
Dirs(b) == IF b = 1 THEN {<<>>, <<"b">>} ELSE {<<>>}

\* The places a file can be at on base filesystem b.
Slots(b) == {d \o <<n>> : d \in Dirs(b), n \in FileNames}

----------------------------------------------------------------------------
(* fs.path *)

RECURSIVE NormStack(_, _)
NormStack(path, stack) ==
    IF path = <<>> THEN [err |-> "ok", path |-> stack]
    ELSE IF Head(path) = ".."
         THEN IF stack = <<>>
              THEN [err |-> "IllegalBackReference", path |-> <<>>]
              ELSE NormStack(Tail(path), SubSeq(stack, 1, Len(stack) - 1))
         ELSE NormStack(Tail(path), Append(stack, Head(path)))

normpath(path) == NormStack(path, <<>>)

\* abspath(normpath(path)) == '/'
IsRoot(path) == normpath(path).err = "ok" /\ normpath(path).path = <<>>

----------------------------------------------------------------------------
(* Requests, results and the call log *)

NoVal == [name |-> "", is_dir |-> FALSE, data |-> "none", flag |-> FALSE]

Req(op, path) ==
    [op |-> op, path |-> path, dst |-> <<>>, overwrite |-> FALSE,
     mode |-> "r", buffering |-> -1, data |-> "none", fault |-> "none"]

Ret(st, err, val) == [st |-> st, err |-> err, val |-> val]

Fail(st, err) == Ret(st, err, NoVal)

----------------------------------------------------------------------------
(* The base filesystems: doubles that keep files and answer calls *)

KindOf(fl, b, p) ==
    IF p \in Dirs(b) THEN "dir"
    ELSE IF p \in Slots(b) /\ fl[b][p] # "none" THEN "file"
    ELSE "none"

\* The name base filesystem b reports for path p; the first one gives its
\* root a name of its own, the second reports '' for it.
BaseName(b, p) ==
    IF p = <<>> THEN (IF b = 1 THEN "vol" ELSE "") ELSE p[Len(p)]

ReadOps == {"getbytes", "gettext", "openbin", "open"}
FlagOps == {"exists", "isdir", "isfile"}
NoPathOps == {"getmeta", "lock"}

\* Base filesystem b serves req in state st.
BaseDo(b, req, st) ==
    LET n == normpath(req.path)
        p == n.path
        k == KindOf(st.files, b, p)
    IN  IF req.op \in NoPathOps THEN Ret(st, "ok", NoVal)
        ELSE IF n.err # "ok" THEN Fail(st, n.err)
        ELSE IF req.op = "getinfo" THEN
            IF k = "none" THEN Fail(st, "ResourceNotFound")
            ELSE Ret([st EXCEPT !.raw = [reported |-> BaseName(b, p),
                                         name |-> BaseName(b, p)]],
                     "ok",
                     [NoVal EXCEPT !.name = BaseName(b, p), !.is_dir = (k = "dir")])
        ELSE IF req.op \in FlagOps THEN
            Ret(st, "ok",
                [NoVal EXCEPT !.flag = CASE req.op = "exists" -> k # "none"
                                         [] req.op = "isdir" -> k = "dir"
                                         [] req.op = "isfile" -> k = "file"])
        ELSE IF req.op \in ReadOps THEN
            CASE k = "none" -> Fail(st, "ResourceNotFound")
              [] k = "dir" -> Fail(st, "FileExpected")
              [] k = "file" -> Ret(st, "ok", [NoVal EXCEPT !.data = st.files[b][p]])
        ELSE IF req.op = "remove" THEN
            CASE k = "none" -> Fail(st, "ResourceNotFound")
              [] k = "dir" -> Fail(st, "FileExpected")
              [] k = "file" -> Ret([st EXCEPT !.files[b][p] = "none"], "ok", NoVal)
        ELSE IF req.op = "setbytes" THEN
            CASE k = "dir" -> Fail(st, "FileExpected")
              [] k # "dir" /\ p \notin Slots(b) -> Fail(st, "ResourceNotFound")
              [] OTHER -> Ret([st EXCEPT !.files[b][p] = req.data], "ok", NoVal)
        ELSE IF req.op = "move" THEN
            LET m == normpath(req.dst)
                q == m.path
                kq == KindOf(st.files, b, q)
            IN  IF m.err # "ok" THEN Fail(st, m.err)
                ELSE IF k = "none" THEN Fail(st, "ResourceNotFound")
                ELSE IF k = "dir" \/ kq = "dir" THEN Fail(st, "FileExpected")
                ELSE IF q \notin Slots(b) THEN Fail(st, "ResourceNotFound")
                ELSE IF kq = "file" /\ ~req.overwrite
                     THEN Fail(st, "DestinationExists")
                ELSE IF p = q THEN Ret(st, "ok", NoVal)
                ELSE Ret([st EXCEPT !.files[b][q] = st.files[b][p],
                                    !.files[b][p] = "none"], "ok", NoVal)
        ELSE IF k = "none" THEN Fail(st, "ResourceNotFound")
        ELSE Ret(st, "ok", [NoVal EXCEPT !.flag = TRUE])

----------------------------------------------------------------------------
(* WrapFS *)

\* FS._check: a closed filesystem refuses every operation
check(f) == IF Self(f).closed THEN "FilesystemClosed" ELSE "ok"

\* WrapFS.delegate_path, and the two overrides of it the model exercises
WrapFS_delegate_path(f, path) ==
    [err |-> "ok", fs |-> Self(f).wrap_fs, path |-> path]

SubFS_delegate_path(f, path) ==
    LET n == normpath(path)
    IN  IF n.err # "ok" THEN [err |-> n.err, fs |-> Self(f).wrap_fs, path |-> path]
        ELSE [err |-> "ok", fs |-> Self(f).wrap_fs, path |-> Self(f).sub_dir \o n.path]

\* A subclass that serves everything below /b from a second filesystem.
RoutedFS_delegate_path(f, path) ==
    LET n == normpath(path)
    IN  IF n.err # "ok" THEN [err |-> n.err, fs |-> Self(f).wrap_fs, path |-> path]
        ELSE IF n.path # <<>> /\ Head(n.path) = "b"
             THEN [err |-> "ok", fs |-> Self(f).alt_fs, path |-> Tail(n.path)]
             ELSE [err |-> "ok", fs |-> Self(f).wrap_fs, path |-> n.path]

delegate_path(f, path) ==
    CASE Self(f).cls = "SubFS" -> SubFS_delegate_path(f, path)
      [] Self(f).cls = "RoutedFS" -> RoutedFS_delegate_path(f, path)
      [] OTHER -> WrapFS_delegate_path(f, path)

delegate_fs(f) == Self(f).wrap_fs

RECURSIVE Do(_, _, _)

\* `by` calls req on filesystem object `to`; the call is logged when issued
\* and its outcome is filled in when it returns.
\* The k-th logged call has returned r.
Returned(r, k) ==
    [r EXCEPT !.st.calls[k].err = r.err, !.st.calls[k].val = r.val]

Logged(by, to, req) ==
    [by |-> by, to |-> to, src_fs |-> to, dst_fs |-> to, req |-> req,
     err |-> "pending", val |-> NoVal]

Invoke(by, to, req, st) ==
    Returned(Do(to, req, [st EXCEPT !.calls = Append(@, Logged(by, to, req))]),
             Len(st.calls) + 1)

\* _fs.op(_path, ...): the call on the filesystem delegate_path selected
Issue(f, d, req, st) ==
    IF d.err # "ok" THEN Fail(st, d.err)
    ELSE Invoke(f, d.fs, [req EXCEPT !.path = d.path], st)

\* listdir, remove, exists, ...: check, translate, forward
WrapFS_forward(f, req, st) ==
    IF check(f) # "ok" THEN Fail(st, check(f))
    ELSE Issue(f, delegate_path(f, req.path), req, st)

\* lock, getmeta
WrapFS_nopath(f, req, st) ==
    IF check(f) # "ok" THEN Fail(st, check(f))
    ELSE Invoke(f, delegate_fs(f), req, st)

RootName_unforced(r, n) == IF r.err = "ok" /\ n.err # "ok" THEN Fail(r.st, n.err) ELSE r

\* if abspath(normpath(path)) == '/': raw_info = raw_info.copy();
\* raw_info['basic']['name'] = ''.  The copy is shallow: raw_info['basic'] is
\* still the mapping the wrapped filesystem returned, and it is written to.
RootName(r, n) ==
    IF r.err # "ok" THEN r
    ELSE IF n.err # "ok" THEN Fail(r.st, n.err)
    ELSE IF n.path = <<>>
         THEN Ret([r.st EXCEPT !.raw.name = ""], "ok", [r.val EXCEPT !.name = ""])
         ELSE r

WrapFS_getinfo(f, req, st) ==
    IF check(f) # "ok" THEN Fail(st, check(f))
    ELSE RootName(Issue(f, delegate_path(f, req.path), req, st), normpath(req.path))

WrapFS_openbin(f, req, st) ==
    IF check(f) # "ok" THEN Fail(st, check(f))
    ELSE Issue(f, delegate_path(f, req.path), [req EXCEPT !.buffering = -1], st)

----------------------------------------------------------------------------
(* fs.copy.copy_file and fs.move.move_file: the streamed transfer *)

Routine(by, to, src_fs, src_path, dst_fs, dst_path, fault) ==
    [by |-> by, to |-> to, src_fs |-> src_fs, dst_fs |-> dst_fs,
     req |-> [Req(to.kind, src_path) EXCEPT !.dst = dst_path, !.fault = fault],
     err |-> "pending", val |-> NoVal]

\* The k-th logged call, a routine, has ended as r did.
Finished(r, k) == [r EXCEPT !.st.calls[k].err = r.err, !.val = NoVal]

\* A transfer that breaks leaves what it wrote so far and raises.
Broken(wr) ==
    IF wr.err # "ok" THEN Fail(wr.st, wr.err) ELSE Fail(wr.st, "OperationFailed")

\* rd is the outcome of reading the source; write it to the destination.
Write(rd, dst_fs, dst_path, fault) ==
    IF rd.err # "ok" THEN Fail(rd.st, rd.err)
    ELSE IF fault = "io"
         THEN Broken(Invoke(CopyFile, dst_fs,
                            [Req("setbytes", dst_path) EXCEPT !.data = "torn"], rd.st))
         ELSE Invoke(CopyFile, dst_fs,
                     [Req("setbytes", dst_path) EXCEPT !.data = rd.val.data], rd.st)

copy_file(by, src_fs, src_path, dst_fs, dst_path, fault, st) ==
    Finished(
        Write(Invoke(CopyFile, src_fs, Req("getbytes", src_path),
                     [st EXCEPT !.calls = Append(@,
                         Routine(by, CopyFile, src_fs, src_path, dst_fs, dst_path, fault))]),
              dst_fs, dst_path, fault),
        Len(st.calls) + 1)

\* The source is removed once the copy has succeeded.
RemoveSource(cp, src_fs, src_path) ==
    IF cp.err # "ok" THEN cp
    ELSE Invoke(MoveFile, src_fs, Req("remove", src_path), cp.st)

move_file(by, src_fs, src_path, dst_fs, dst_path, fault, st) ==
    Finished(
        RemoveSource(
            copy_file(MoveFile, src_fs, src_path, dst_fs, dst_path, fault,
                      [st EXCEPT !.calls = Append(@,
                          Routine(by, MoveFile, src_fs, src_path, dst_fs, dst_path, fault))]),
            src_fs, src_path),
        Len(st.calls) + 1)

----------------------------------------------------------------------------
(* The two-path operations *)

same_fs_by_path(src_fs, src_path, dst_fs, dst_path) == src_path = dst_path

same_fs_always(src_fs, src_path, dst_fs, dst_path) == TRUE

\* src_fs is dst_fs
same_fs(src_fs, src_path, dst_fs, dst_path) == src_fs = dst_fs

\* s, d: the translated source and destination
Transfer(f, req, s, d, st) ==
    IF s.err # "ok" THEN Fail(st, s.err)
    ELSE IF d.err # "ok" THEN Fail(st, d.err)
    ELSE IF same_fs(s.fs, s.path, d.fs, d.path)
         THEN [Invoke(f, s.fs, [req EXCEPT !.path = s.path, !.dst = d.path], st)
               EXCEPT !.val = NoVal]
         ELSE move_file(f, s.fs, s.path, d.fs, d.path, req.fault, st)

Preflight_unchecked(f, req, pre) ==
    IF pre.err # "ok" THEN Fail(pre.st, pre.err)
    ELSE Transfer(f, req, delegate_path(f, req.path), delegate_path(f, req.dst), pre.st)

\* if not overwrite and self.exists(dst_path): raise DestinationExists
\* pre is the outcome of self.exists(dst_path), when it was called
Preflight(f, req, pre) ==
    IF pre.err # "ok" THEN Fail(pre.st, pre.err)
    ELSE IF ~req.overwrite /\ pre.val.flag THEN Fail(pre.st, "DestinationExists")
    ELSE Transfer(f, req, delegate_path(f, req.path), delegate_path(f, req.dst), pre.st)

WrapFS_move(f, req, st) ==
    Preflight(f, req, IF req.overwrite THEN Ret(st, "ok", NoVal)
                      ELSE WrapFS_forward(f, Req("exists", req.dst), st))

Streamed(f, req, s, d, st) ==
    IF s.err # "ok" THEN Fail(st, s.err)
    ELSE IF d.err # "ok" THEN Fail(st, d.err)
    ELSE copy_file(f, s.fs, s.path, d.fs, d.path, req.fault, st)

WrapFS_copy(f, req, st) ==
    Streamed(f, req, delegate_path(f, req.path), delegate_path(f, req.dst), st)

Do(f, req, st) ==
    IF hasWrapFs(f)
    THEN CASE req.op = "getinfo" -> WrapFS_getinfo(f, req, st)
           [] req.op = "openbin" -> WrapFS_openbin(f, req, st)
           [] req.op = "move" -> WrapFS_move(f, req, st)
           [] req.op = "copy" -> WrapFS_copy(f, req, st)
           [] req.op \in NoPathOps -> WrapFS_nopath(f, req, st)
           [] OTHER -> WrapFS_forward(f, req, st)
    ELSE BaseDo(f.id, req, st)

----------------------------------------------------------------------------
(* Construction, opendir and __str__ *)

\* WrapFS.__init__; wrap_name is the class attribute of the class constructed
WrapFS_init(cls, wrap_fs, wrap_name, sub_dir, alt_fs) ==
    [cls |-> cls, wrap_fs |-> wrap_fs, wrap_name |-> wrap_name,
     closed |-> FALSE, sub_dir |-> sub_dir, alt_fs |-> alt_fs]

\* SubFS(parent_fs, path): a view of parent_fs rooted at abspath(normpath(path))
SubFS_init(parent_fs, path) ==
    WrapFS_init("SubFS", parent_fs, "None", normpath(path).path, parent_fs)

DirOnly_unchecked(info) ==
    IF info.err # "ok" THEN Fail(info.st, info.err)
    ELSE Ret(info.st, "ok", [NoVal EXCEPT !.flag = TRUE])

\* if not info.is_dir: raise ResourceInvalid; val.flag tells that a SubFS
\* is returned
DirOnly(info) ==
    IF info.err # "ok" THEN Fail(info.st, info.err)
    ELSE IF ~info.val.is_dir THEN Fail(info.st, "ResourceInvalid")
    ELSE Ret(info.st, "ok", [NoVal EXCEPT !.flag = TRUE])

WrapFS_opendir(f, req, st) ==
    DirOnly(Do(f, Req("getinfo", req.path), st))    \* self.getinfo(path)

\* while hasattr(_fs, '_wrap_fs'): collect wrap_name, step to _fs._wrap_fs
RECURSIVE StrWalk(_, _, _)
StrWalk(fs, wraps, steps) ==
    IF hasWrapFs(fs)
    THEN StrWalk(Self(fs).wrap_fs,
                 IF Self(fs).wrap_name # "None"
                 THEN Append(wraps, Self(fs).wrap_name) ELSE wraps,
                 steps + 1)
    ELSE [fs |-> fs, wraps |-> wraps, steps |-> steps]

Reversed_not(s) == s

\* wraps[::-1]
Reversed(s) == [i \in 1..Len(s) |-> s[Len(s) + 1 - i]]

\* ', '.join(s), as the sequence of its pieces
RECURSIVE Join(_)
Join(s) ==
    IF Len(s) = 0 THEN <<>>
    ELSE IF Len(s) = 1 THEN s
    ELSE <<Head(s), ", ">> \o Join(Tail(s))

\* "{}".format(_fs) of a base filesystem
BaseStr(fs) == IF fs.id = 1 THEN <<"Base()">> ELSE <<"Other()">>

WrapFS_str(f) ==
    LET w == StrWalk(f, <<>>, 0)
    IN  [str |-> IF w.wraps # <<>>
                 THEN BaseStr(w.fs) \o <<"(">> \o Join(Reversed(w.wraps)) \o <<")">>
                 ELSE BaseStr(w.fs),
         steps |-> w.steps]

----------------------------------------------------------------------------
(* The state machine *)

SinglePathOps ==
    {"listdir", "makedir", "remove", "removedir", "scandir", "setinfo",
     "settimes", "touch", "create", "desc", "exists", "filterdir", "getbytes",
     "gettext", "getsize", "getsyspath", "gettype", "geturl", "hassyspath",
     "hasurl", "isdir", "isfile", "makedirs", "setfile", "validatepath"}

NoRaw == [reported |-> "", name |-> ""]

Closed == {i \in 1..Len(proxies) : proxies[i].closed}

Called(f, req, r) ==
    [op |-> req.op, on |-> f, req |-> req, err |-> r.err, val |-> r.val,
     calls |-> r.st.calls, closed |-> Closed, pre |-> files, raw |-> r.st.raw,
     had |-> Len(proxies), made |-> 0, str |-> <<>>, steps |-> 0]

NoCall ==
    [op |-> "none", on |-> Base(1), req |-> Req("none", <<>>), err |-> "ok",
     val |-> NoVal, calls |-> <<>>, closed |-> {}, pre |-> <<>>, raw |-> NoRaw,
     had |-> 0, made |-> 0, str |-> <<>>, steps |-> 0]

Start == [files |-> files, calls |-> <<>>, raw |-> NoRaw]

\* The call of req on f has ended as r did.
Done(f, req, r) ==
    /\ files' = r.st.files
    /\ last' = Called(f, req, r)
    /\ UNCHANGED proxies

\* A caller invokes req on proxy f.
Run(f, req) ==
    /\ last.op = "none"
    /\ Done(f, req, Do(f, req, Start))

InitFiles ==
    [b \in {1, 2} |->
        [p \in Slots(b) |-> IF p = <<"a">> THEN (IF b = 1 THEN "x" ELSE "y")
                            ELSE "none"]]

Init ==
    /\ proxies \in
         { <<WrapFS_init("WrapFS", Base(1), "None", <<>>, Base(1))>>,
           <<WrapFS_init("RoutedFS", Base(1), "None", <<>>, Base(2))>> }
    /\ files = InitFiles
    /\ last = NoCall

GetInfo(f, path) == Run(f, Req("getinfo", path))

OpenBin(f, path, mode, buffering) ==
    Run(f, [Req("openbin", path) EXCEPT !.mode = mode, !.buffering = buffering])

Open(f, path, mode, buffering) ==
    Run(f, [Req("open", path) EXCEPT !.mode = mode, !.buffering = buffering])

SinglePath(f, op, path) == Run(f, Req(op, path))

SetBytes(f, path, data) == Run(f, [Req("setbytes", path) EXCEPT !.data = data])

NoPath(f, op) == Run(f, Req(op, <<>>))

Move(f, src, dst, overwrite, fault) ==
    Run(f, [Req("move", src) EXCEPT !.dst = dst, !.overwrite = overwrite,
                                    !.fault = fault])

Copy(f, src, dst, fault) ==
    Run(f, [Req("copy", src) EXCEPT !.dst = dst, !.fault = fault])

Opened(f, req, r) ==
    /\ proxies' = IF r.err = "ok" THEN Append(proxies, SubFS_init(f, req.path))
                  ELSE proxies
    /\ files' = r.st.files
    /\ last' = [Called(f, req, r) EXCEPT
                    !.made = IF r.err = "ok" THEN Len(proxies) + 1 ELSE 0]

OpenDir(f, path) ==
    /\ last.op = "none"
    /\ Len(proxies) < MaxProxies
    /\ Opened(f, Req("opendir", path), WrapFS_opendir(f, Req("opendir", path), Start))

\* FS.close
Close(f) ==
    /\ last.op = "none"
    /\ ~Self(f).closed
    /\ proxies' = [proxies EXCEPT ![f.id].closed = TRUE]
    /\ last' = [NoCall EXCEPT !.op = "close", !.on = f, !.closed = Closed]
    /\ UNCHANGED files

\* The caller takes the outcome of its call; the next call can begin.
Return ==
    /\ last.op # "none"
    /\ last' = NoCall
    /\ UNCHANGED <<proxies, files>>

Next ==
    \/ Return
    \/ \E f \in ProxyFS, p \in CallerPaths : GetInfo(f, p)
    \/ \E f \in ProxyFS, p \in CallerPaths, m \in Modes, b \in Bufferings :
          OpenBin(f, p, m, b)
    \/ \E f \in ProxyFS, p \in CallerPaths, m \in Modes, b \in Bufferings :
          Open(f, p, m, b)
    \/ \E f \in ProxyFS, op \in SinglePathOps, p \in CallerPaths : SinglePath(f, op, p)
    \/ \E f \in ProxyFS, p \in CallerPaths, d \in Data : SetBytes(f, p, d)
    \/ \E f \in ProxyFS, op \in NoPathOps : NoPath(f, op)
    \/ \E f \in ProxyFS, s \in CallerPaths, d \in CallerPaths, o \in BOOLEAN,
          x \in Faults : Move(f, s, d, o, x)
    \/ \E f \in ProxyFS, s \in CallerPaths, d \in CallerPaths, x \in Faults :
          Copy(f, s, d, x)
    \/ \E f \in ProxyFS, p \in CallerPaths : OpenDir(f, p)
    \/ \E f \in ProxyFS : Close(f)

Spec == Init /\ [][Next]_vars

\* Moves through open, closed and nested proxies
NextMove ==
    \/ Return
    \/ \E f \in ProxyFS, s \in CallerPaths, d \in CallerPaths, o \in BOOLEAN,
          x \in Faults : Move(f, s, d, o, x)
    \/ \E f \in ProxyFS, p \in CallerPaths : OpenDir(f, p)
    \/ \E f \in ProxyFS : Close(f)

SpecMove == Init /\ [][NextMove]_vars

\* Metadata and sub-directory views
NextInfo ==
    \/ Return
    \/ \E f \in ProxyFS, p \in CallerPaths : GetInfo(f, p)
    \/ \E f \in ProxyFS, p \in CallerPaths : OpenDir(f, p)
    \/ \E f \in ProxyFS, p \in CallerPaths : SinglePath(f, "remove", p)
    \/ \E f \in ProxyFS : Close(f)

SpecInfo == Init /\ [][NextInfo]_vars

----------------------------------------------------------------------------
(* The representation specification: chains of labelled proxies *)

Construct(wrap_fs, wrap_name) ==
    /\ Len(proxies) < MaxWraps
    /\ proxies' = Append(proxies, WrapFS_init("WrapFS", wrap_fs, wrap_name, <<>>, wrap_fs))
    /\ last' = [NoCall EXCEPT !.op = "__init__", !.on = wrap_fs,
                              !.made = Len(proxies) + 1]
    /\ UNCHANGED files

Shown(f, r) ==
    last' = [NoCall EXCEPT !.op = "__str__", !.on = f, !.str = r.str,
                           !.steps = r.steps]

Str(f) ==
    /\ Shown(f, WrapFS_str(f))
    /\ UNCHANGED <<proxies, files>>

InitStr ==
    /\ proxies = <<>>
    /\ files = InitFiles
    /\ last = NoCall

NextStr ==
    \/ \E t \in BaseFS \cup ProxyFS, n \in Labels : Construct(t, n)
    \/ \E f \in ProxyFS : Str(f)

SpecStr == InitStr /\ [][NextStr]_vars

----------------------------------------------------------------------------
(* What the properties speak of *)

\* The calls proxy f itself issued during the last operation, in order.
CallsBy(f) == SelectSeq(last.calls, LAMBDA c : c.by = f)

\* Those among them that are calls of op on a filesystem.
OpsBy(f, op) ==
    SelectSeq(last.calls, LAMBDA c : c.by = f /\ c.req.op = op /\ c.to.kind \in {"base", "proxy"})

\* Those that hand the transfer to the external routine.
RoutinesBy(f, routine) ==
    SelectSeq(last.calls, LAMBDA c : c.by = f /\ c.to = routine)

\* Where a path of filesystem object fs ends up: the base filesystem and the
\* normalised path on it, whatever the state of the proxies on the way.
RECURSIVE Locate(_, _)
Locate(fs, path) ==
    IF hasWrapFs(fs)
    THEN IF delegate_path(fs, path).err # "ok"
         THEN [err |-> delegate_path(fs, path).err, fs |-> fs, path |-> path]
         ELSE Locate(delegate_path(fs, path).fs, delegate_path(fs, path).path)
    ELSE [err |-> normpath(path).err, fs |-> fs, path |-> normpath(path).path]

\* Every proxy a call on fs for path passes through is open.
RECURSIVE ChainOpen(_, _)
ChainOpen(fs, path) ==
    IF hasWrapFs(fs)
    THEN /\ ~Self(fs).closed
         /\ delegate_path(fs, path).err = "ok" =>
                ChainOpen(delegate_path(fs, path).fs, delegate_path(fs, path).path)
    ELSE TRUE

\* What is at path of fs in the file contents fl: "dir", "file" or "none".
KindAt(fl, fs, path) ==
    IF Locate(fs, path).err # "ok" THEN "none"
    ELSE KindOf(fl, Locate(fs, path).fs.id, Locate(fs, path).path)

\* The contents of the file at path of fs in fl, "none" when there is no file.
ContentAt(fl, fs, path) ==
    IF KindAt(fl, fs, path) = "file"
    THEN fl[Locate(fs, path).fs.id][Locate(fs, path).path]
    ELSE "none"

IsCall == last.op \notin {"none", "close", "__init__", "__str__"}

Src == delegate_path(last.on, last.req.path)
Dst == delegate_path(last.on, last.req.dst)
Translated == Src.err = "ok" /\ Dst.err = "ok"

\* The pre-flight check of the last move let it through.
Permitted ==
    \/ last.req.overwrite
    \/ \E k \in 1..Len(OpsBy(last.on, "exists")) :
           /\ OpsBy(last.on, "exists")[k].err = "ok"
           /\ ~OpsBy(last.on, "exists")[k].val.flag

\* Some call of the last operation changed or was to change file contents.
NoTransfer ==
    \A k \in 1..Len(last.calls) :
        /\ last.calls[k].req.op \notin {"move", "copy", "setbytes", "remove"}
        /\ last.calls[k].to \notin {MoveFile, CopyFile}

----------------------------------------------------------------------------
(* C1 *)

\* C1: a call on a closed proxy fails with FilesystemClosed and issues no call
\* on the wrapped filesystem nor on the external move/copy routine.
ClosedProxyRefusesEveryCall ==
    (IsCall /\ last.on.id \in last.closed) =>
        /\ last.err = "FilesystemClosed"
        /\ Len(CallsBy(last.on)) = 0

----------------------------------------------------------------------------
(* C2 *)

\* C2: a permitted move whose two paths translate onto the same filesystem
\* instance issues exactly one native move on that instance, with the two
\* translated paths and the caller's overwrite flag, and never calls move_file.
SameInstanceMovesNatively ==
    (last.op = "move" /\ Permitted /\ Translated /\ Src.fs = Dst.fs) =>
        /\ Len(OpsBy(last.on, "move")) = 1
        /\ OpsBy(last.on, "move")[1].to = Src.fs
        /\ OpsBy(last.on, "move")[1].req.path = Src.path
        /\ OpsBy(last.on, "move")[1].req.dst = Dst.path
        /\ OpsBy(last.on, "move")[1].req.overwrite = last.req.overwrite
        /\ Len(RoutinesBy(last.on, MoveFile)) = 0
        /\ Len(RoutinesBy(last.on, CopyFile)) = 0

\* A file was moved natively between two different paths of one instance.
SameInstanceMoveDone ==
    /\ last.op = "move" /\ Permitted /\ Translated /\ Src.fs = Dst.fs
    /\ Src.path # Dst.path
    /\ last.err = "ok"
    /\ ContentAt(last.pre, last.on, last.req.path) \in Data
    /\ ContentAt(files, last.on, last.req.dst)
         = ContentAt(last.pre, last.on, last.req.path)

----------------------------------------------------------------------------
(* C3 *)

\* C3: move(src, dst, overwrite=False) with dst present performs no transfer
\* and leaves every file as it was, raising DestinationExists (FilesystemClosed
\* when a proxy on the way is closed); with overwrite=True the pre-flight
\* check is skipped and the transfer is issued whether or not dst is present.
MoveRespectsOverwrite ==
    /\ (last.op = "move" /\ ~last.req.overwrite
          /\ KindAt(last.pre, last.on, last.req.dst) # "none") =>
            /\ NoTransfer
            /\ files = last.pre
            /\ last.err = IF ChainOpen(last.on, last.req.dst)
                          THEN "DestinationExists" ELSE "FilesystemClosed"
    /\ (last.op = "move" /\ last.req.overwrite /\ Translated) =>
            /\ Len(OpsBy(last.on, "exists")) = 0
            /\ Len(OpsBy(last.on, "move")) + Len(RoutinesBy(last.on, MoveFile)) = 1
            /\ last.err # "DestinationExists"

\* A move without overwrite found a file at its destination and was refused.
MoveRefused ==
    /\ last.op = "move" /\ ~last.req.overwrite
    /\ KindAt(last.pre, last.on, last.req.dst) = "file"
    /\ KindAt(last.pre, last.on, last.req.path) = "file"
    /\ last.err = "DestinationExists"

----------------------------------------------------------------------------
(* C4 *)

\* C4: a permitted move whose paths translate to different filesystem
\* instances calls move_file exactly once, with the translated pairs, and
\* issues no native move; when the source file is gone afterwards the
\* destination holds what the source held, and when the move fails the source
\* file is still there, unchanged.
CrossInstanceMoveStreams ==
    (last.op = "move" /\ Permitted /\ Translated /\ Src.fs # Dst.fs) =>
        /\ Len(RoutinesBy(last.on, MoveFile)) = 1
        /\ RoutinesBy(last.on, MoveFile)[1].src_fs = Src.fs
        /\ RoutinesBy(last.on, MoveFile)[1].req.path = Src.path
        /\ RoutinesBy(last.on, MoveFile)[1].dst_fs = Dst.fs
        /\ RoutinesBy(last.on, MoveFile)[1].req.dst = Dst.path
        /\ Len(OpsBy(last.on, "move")) = 0
        /\ (/\ ContentAt(last.pre, last.on, last.req.path) # "none"
            /\ ContentAt(files, last.on, last.req.path) = "none") =>
               ContentAt(files, last.on, last.req.dst)
                 = ContentAt(last.pre, last.on, last.req.path)
        /\ last.err # "ok" =>
               ContentAt(files, last.on, last.req.path)
                 = ContentAt(last.pre, last.on, last.req.path)

\* A file was streamed to another filesystem instance and then removed.
CrossInstanceMoveDone ==
    /\ last.op = "move" /\ Permitted /\ Translated /\ Src.fs # Dst.fs
    /\ last.err = "ok"
    /\ ContentAt(last.pre, last.on, last.req.path) \in Data
    /\ ContentAt(last.pre, last.on, last.req.dst)
         # ContentAt(last.pre, last.on, last.req.path)
    /\ ContentAt(files, last.on, last.req.path) = "none"

----------------------------------------------------------------------------
(* C5 *)

\* C5: a copy whose two paths translate onto the same filesystem instance
\* issues one native copy on that instance with the two translated paths;
\* copy_file is called only when the instances differ.
SameInstanceCopiesNatively ==
    (last.op = "copy" /\ Translated /\ Src.fs = Dst.fs) =>
        /\ Len(OpsBy(last.on, "copy")) = 1
        /\ OpsBy(last.on, "copy")[1].to = Src.fs
        /\ OpsBy(last.on, "copy")[1].req.path = Src.path
        /\ OpsBy(last.on, "copy")[1].req.dst = Dst.path
        /\ Len(RoutinesBy(last.on, CopyFile)) = 0

----------------------------------------------------------------------------
(* C6 *)

\* C6: getinfo issues one getinfo on the translated filesystem and path and
\* returns what it returned, field by field, except that the name is '' when
\* the caller's path normalises to the root; an error of the wrapped
\* filesystem is returned as it is.
GetInfoMasksRootNameOnly ==
    (last.op = "getinfo" /\ Len(CallsBy(last.on)) > 0) =>
        /\ Len(CallsBy(last.on)) = 1
        /\ CallsBy(last.on)[1].to = Src.fs
        /\ CallsBy(last.on)[1].req.op = "getinfo"
        /\ CallsBy(last.on)[1].req.path = Src.path
        /\ last.err = CallsBy(last.on)[1].err
        /\ last.err = "ok" =>
              /\ last.val.is_dir = CallsBy(last.on)[1].val.is_dir
              /\ last.val.data = CallsBy(last.on)[1].val.data
              /\ last.val.flag = CallsBy(last.on)[1].val.flag
              /\ last.val.name = IF IsRoot(last.req.path) THEN ""
                                 ELSE CallsBy(last.on)[1].val.name

\* The wrapped filesystem gave the proxy's root a name and the caller saw ''.
RootNameMasked ==
    /\ last.op = "getinfo" /\ last.err = "ok"
    /\ IsRoot(last.req.path)
    /\ last.req.path # <<>>
    /\ Len(CallsBy(last.on)) = 1
    /\ CallsBy(last.on)[1].val.name # ""
    /\ last.val.name = ""

----------------------------------------------------------------------------
(* C7 *)

\* C7: opendir(p) on open proxies raises ResourceInvalid and creates no view
\* when p is a file; returns a new SubFS wrapping this proxy, whose root
\* translates to p, when p is a directory; and lets the not-found error of
\* getinfo through, creating no view, when p does not exist.
OpenDirViewsDirectoriesOnly ==
    (last.op = "opendir" /\ ChainOpen(last.on, last.req.path)
       /\ Locate(last.on, last.req.path).err = "ok") =>
        /\ KindAt(last.pre, last.on, last.req.path) = "file" =>
              /\ last.err = "ResourceInvalid"
              /\ last.made = 0 /\ Len(proxies) = last.had
        /\ KindAt(last.pre, last.on, last.req.path) = "none" =>
              /\ last.err = "ResourceNotFound"
              /\ Len(OpsBy(last.on, "getinfo")) = 1
              /\ OpsBy(last.on, "getinfo")[1].err = "ResourceNotFound"
              /\ last.made = 0 /\ Len(proxies) = last.had
        /\ KindAt(last.pre, last.on, last.req.path) = "dir" =>
              /\ last.err = "ok"
              /\ last.made = last.had + 1 /\ Len(proxies) = last.had + 1
              /\ proxies[last.made].cls = "SubFS"
              /\ proxies[last.made].wrap_fs = last.on
              /\ delegate_path(Proxy(last.made), <<>>)
                   = [err |-> "ok", fs |-> last.on,
                      path |-> normpath(last.req.path).path]

\* opendir was refused on a file.
OpenDirRefusedFile ==
    /\ last.op = "opendir"
    /\ KindAt(last.pre, last.on, last.req.path) = "file"
    /\ last.err = "ResourceInvalid"

----------------------------------------------------------------------------
(* C8 *)

\* C8: openbin forwards the caller's mode and buffering unchanged.
OpenBinForwardsBuffering ==
    (last.op = "openbin" /\ Len(CallsBy(last.on)) > 0) =>
        /\ CallsBy(last.on)[1].req.op = "openbin"
        /\ CallsBy(last.on)[1].req.mode = last.req.mode
        /\ CallsBy(last.on)[1].req.buffering = last.req.buffering

----------------------------------------------------------------------------
(* C9 *)

\* The base filesystem a chain of proxies ends at.
RECURSIVE BaseOf(_)
BaseOf(fs) == IF hasWrapFs(fs) THEN BaseOf(Self(fs).wrap_fs) ELSE fs

\* The labels of the chain, from the proxy next to the base outwards.
RECURSIVE LabelsFromBase(_)
LabelsFromBase(fs) ==
    IF hasWrapFs(fs)
    THEN LabelsFromBase(Self(fs).wrap_fs)
           \o (IF Self(fs).wrap_name = "None" THEN <<>> ELSE <<Self(fs).wrap_name>>)
    ELSE <<>>

RECURSIVE Depth(_)
Depth(fs) == IF hasWrapFs(fs) THEN 1 + Depth(Self(fs).wrap_fs) ELSE 0

CommaSeparated(s) ==
    [i \in 1..(2 * Len(s) - 1) |-> IF i % 2 = 1 THEN s[(i + 1) \div 2] ELSE ", "]

\* C9: str of a proxy ends after one step per proxy of its chain and is the
\* base's string, followed when a proxy is labelled by the labels in
\* parentheses, comma separated, from the proxy next to the base outwards;
\* 'cache' over 'sub' over Base() gives Base() followed by (sub, cache).
StrListsLabelsFromBaseOutwards ==
    last.op = "__str__" =>
        /\ last.steps = Depth(last.on)
        /\ last.str = IF LabelsFromBase(last.on) = <<>>
                      THEN BaseStr(BaseOf(last.on))
                      ELSE BaseStr(BaseOf(last.on)) \o <<"(">>
                             \o CommaSeparated(LabelsFromBase(last.on)) \o <<")">>
        /\ (LabelsFromBase(last.on) = <<"sub", "cache">> /\ BaseOf(last.on) = Base(1)) =>
              last.str = <<"Base()", "(", "sub", ", ", "cache", ")">>

\* str of 'cache' over 'sub' over the base was taken.
StrOfSubCache ==
    /\ last.op = "__str__"
    /\ Self(last.on).wrap_name = "cache"
    /\ Self(last.on).wrap_fs.kind = "proxy"
    /\ Self(Self(last.on).wrap_fs).wrap_name = "sub"
    /\ Self(Self(last.on).wrap_fs).wrap_fs = Base(1)
    /\ last.str = <<"Base()", "(", "sub", ", ", "cache", ")">>

----------------------------------------------------------------------------
(* C10 *)

\* C10: getinfo through a proxy leaves the 'basic' mapping of the info the
\* wrapped filesystem returned as it was: the name in it is still the name
\* the wrapped filesystem reported.
GetInfoLeavesWrappedInfoAlone ==
    (last.op = "getinfo" /\ last.err = "ok") => last.raw.name = last.raw.reported

====
